---- MODULE Spec2Model ----
(***************************************************************************)
(* Two serverless handlers of the repository:                              *)
(*   - lambda_function/lambda_function.py : the employee CRUD API over one *)
(*     DynamoDB table ("employees", keyed by "id");                        *)
(*   - lambda-functions/image-minifier.py : the thumbnail generator.       *)
(* The table is shared by concurrently running invocations; every table    *)
(* call (get_item, put_item, update_item, delete_item, one scan page) is   *)
(* one atomic step, and the code around it is local to the invocation.     *)
(***************************************************************************)
EXTENDS Integers, Sequences, FiniteSets, TLC

VARIABLES
  table,   \* the "employees" table: id -> item, for the ids that have an item
  inv,     \* per invocation of the API handler: its request, locals and response
  img      \* the one invocation of the thumbnail generator

vars == <<table, inv, img>>

\* ---------------------------------------------------------------- bounds
MaxKey == 2          \* number of distinct ids of the table
MaxInv == 2          \* number of API invocations that may run concurrently
RaceKeys == 1        \* number of ids the concurrent invocations work on
MaxDim == 170        \* largest image width and height
MaxKeyLen == 7       \* longest object key, in characters

\* ------------------------------------------------------------ data model
KeyNames == <<"k1", "k2", "k3", "k4", "k5">>
Keys == {KeyNames[i] : i \in 1..MaxKey}
Procs == 1..MaxInv
Vals == {"a", "b"}

\* An item is a map from attribute names to values; "id" is the table's key.
Items ==
  UNION {[id : {k}] \cup [id : {k}, name : Vals] : k \in Keys}

\* The attribute maps a caller may POST: any of the attributes, "id" included.
CreateBodies ==
  {<<>>} \cup [name : Vals] \cup [id : Keys] \cup [id : Keys, name : Vals]

\* The bodies a caller may PATCH: {"attribute": ..., "value": ...}.
UpdateBodies == [attribute : {"name", "id"}, value : Vals]

TableOK(t) == \A k \in DOMAIN t : t[k].id = k

\* The contents the table may have when an invocation starts.
Tables == {t \in UNION {[S -> Items] : S \in SUBSET Keys} : TableOK(t)}

Methods == {"GET", "POST", "PATCH", "DELETE", "PUT"}

\* A path is the sequence path.split("/") of its segments.
EmployeesPath == <<"", "employees">>
Paths ==
  {EmployeesPath, <<"", "other">>, <<"", "employeesX">>, <<"", "info">>,
   <<"", "employees", "info">>, <<"", "employees", "x", "k1">>}
  \cup {<<"", "employees", k>> : k \in Keys}

\* botocore ClientError: e.response["Error"]["Message"] may be missing.
NoError == [ok |-> TRUE]
ClientErrors ==
  {[str |-> "An error occurred (Throttling)", Message |-> "Rate exceeded"],
   [str |-> "An error occurred (Unknown)"]}

ValidationError ==
  [str |-> "An error occurred (ValidationException)",
   Message |-> "Cannot update attribute id. This attribute is part of the key"]

Range(s) == {s[i] : i \in DOMAIN s}

\* The events, bodies and service faults a run draws from.
ApiInputs ==
  [paths |-> Paths, create |-> CreateBodies, update |-> UpdateBodies,
   errors |-> ClientErrors]

\* Concurrent runs: PATCH and DELETE on the first RaceKeys ids, no faults.
RaceKeySet == {KeyNames[i] : i \in 1..RaceKeys}
RaceInputs ==
  [paths |-> {<<"", "employees", k>> : k \in RaceKeySet}, create |-> {},
   update |-> [attribute : {"name"}, value : Vals], errors |-> {}]

\* ---------------------------------------------------------------- routing
StartsWithEmployees(path) ==
  Len(path) >= 3 /\ path[1] = "" /\ path[2] = "employees"

PathId(path) == path[Len(path)]

\* Mutant: the POST route forgets to look at the method.
Route_AnyMethod(method, path) ==
  IF "info" \in Range(path) THEN "info"
  ELSE IF method = "GET" /\ path = EmployeesPath THEN "get_employees"
  ELSE IF method = "GET" /\ StartsWithEmployees(path) THEN "get_employee"
  ELSE IF path = EmployeesPath THEN "create_employee"
  ELSE IF method = "PATCH" /\ StartsWithEmployees(path) THEN "update_employee"
  ELSE IF method = "DELETE" /\ StartsWithEmployees(path) THEN "delete_employee"
  ELSE "not_implemented"

Route(method, path) ==
  IF "info" \in Range(path) THEN "info"
  ELSE IF method = "GET" /\ path = EmployeesPath THEN "get_employees"
  ELSE IF method = "GET" /\ StartsWithEmployees(path) THEN "get_employee"
  ELSE IF method = "POST" /\ path = EmployeesPath THEN "create_employee"
  ELSE IF method = "PATCH" /\ StartsWithEmployees(path) THEN "update_employee"
  ELSE IF method = "DELETE" /\ StartsWithEmployees(path) THEN "delete_employee"
  ELSE "not_implemented"

\* --------------------------------------------------------------- responses
ErrorMessage(e) == IF "Message" \in DOMAIN e THEN e.Message ELSE e.str

NoBody == [kind |-> "none"]
\* {"error": <message of the ClientError>}
ErrorBody(e) == [kind |-> "error", error |-> ErrorMessage(e)]
\* {"error": "Employee '<id>' not found"}
NotFoundBody(id) == [kind |-> "not_found", id |-> id]

\* An invocation: the event (method, path, data = the parsed body), the locals
\* of get_employees (employees, lek = position of LastEvaluatedKey, 0 if none),
\* the number of table calls issued so far, the ClientError the last one
\* raised (NoError if none), and the response.
Idle ==
  [pc |-> "idle", method |-> "", path |-> <<>>, data |-> NoBody,
   employees |-> <<>>, lek |-> 0, calls |-> 0, err |-> NoError,
   status |-> 0, body |-> NoBody]

Request(method, path) == [Idle EXCEPT !.method = method, !.path = path]

make_response(r, body, status) ==
  [r EXCEPT !.pc = "done", !.status = status, !.body = body]

\* ------------------------------------------------------------- the table
\* put_item: the item is stored under the value of its key attribute "id".
put_item(t, item) ==
  [k \in DOMAIN t \cup {item.id} |-> IF k = item.id THEN item ELSE t[k]]

\* Mutant: the update carries the condition attribute_exists(id).
update_item_IfExists(t, id, attr, val) ==
  [k \in DOMAIN t |-> IF k = id THEN (attr :> val) @@ t[id] ELSE t[k]]

\* update_item with "SET #attr = :value": DynamoDB creates the item when the
\* key is absent (no ConditionExpression is given).
update_item(t, id, attr, val) ==
  [k \in DOMAIN t \cup {id} |->
     IF k = id
       THEN (attr :> val) @@ (IF id \in DOMAIN t THEN t[id] ELSE [id |-> id])
       ELSE t[k]]

\* Mutant: the delete is issued with a key that matches no item.
delete_item_Nothing(t, id) == t

delete_item(t, id) == [k \in DOMAIN t \ {id} |-> t[k]]

\* One scan page: the items whose key position is in from+1..upto, in order.
RECURSIVE ScanItems(_, _, _)
ScanItems(t, from, upto) ==
  IF from >= upto THEN <<>>
  ELSE (IF KeyNames[from + 1] \in DOMAIN t
          THEN <<t[KeyNames[from + 1]]>> ELSE <<>>)
       \o ScanItems(t, from + 1, upto)

\* The table holds an item beyond key position pos.
MoreAfter(t, pos) == \E i \in (pos + 1)..MaxKey : KeyNames[i] \in DOMAIN t

\* A page evaluates the key positions from+1..upto and carries a
\* LastEvaluatedKey (more) whenever items remain beyond it; a page that
\* carries one has moved on.
ScanChoice(t, from, upto, more) ==
  /\ upto \in from..MaxKey
  /\ more => upto > from
  /\ MoreAfter(t, upto) => more

\* ------------------------------------------------------------- handlers
\* "info" in path.split("/"): the event is echoed.
Info(p, in) ==
  \E method \in Methods, path \in in.paths :
    /\ inv[p].pc = "idle"
    /\ Route(method, path) = "info"
    /\ inv' = [inv EXCEPT ![p] =
                 make_response(Request(method, path), [kind |-> "event"], 200)]
    /\ UNCHANGED <<table, img>>

NotImplemented(p, in) ==
  \E method \in Methods, path \in in.paths :
    /\ inv[p].pc = "idle"
    /\ Route(method, path) = "not_implemented"
    /\ inv' = [inv EXCEPT ![p] =
                 make_response(Request(method, path),
                               [kind |-> "not_implemented"], 501)]
    /\ UNCHANGED <<table, img>>

\* get_employee: get_or_throw on the table as it is now, e the call's fault.
get_employee(r, employee_id, e) ==
  LET c == [r EXCEPT !.calls = @ + 1, !.err = e] IN
  IF e # NoError THEN make_response(c, ErrorBody(e), 500)
  ELSE IF employee_id \notin DOMAIN table
    THEN make_response(c, NotFoundBody(employee_id), 404)
  ELSE make_response(c, [kind |-> "item", item |-> table[employee_id]], 200)

GetEmployee(p, in) ==
  \E method \in Methods, path \in in.paths, e \in in.errors \cup {NoError} :
    /\ inv[p].pc = "idle"
    /\ Route(method, path) = "get_employee"
    /\ inv' = [inv EXCEPT ![p] =
                 get_employee(Request(method, path), PathId(path), e)]
    /\ UNCHANGED <<table, img>>

\* Mutant: LastEvaluatedKey is not followed, the first page is the answer.
scan_page_FirstPageOnly(r, e, upto, more) ==
  LET c == [r EXCEPT !.calls = @ + 1, !.err = e] IN
  IF e # NoError THEN make_response(c, ErrorBody(e), 500)
  ELSE LET employees == c.employees \o ScanItems(table, c.lek, upto) IN
       make_response([c EXCEPT !.employees = employees, !.lek = 0],
                     [kind |-> "list", items |-> employees], 200)

\* One table.scan() call of get_employees and what the loop does with it.
scan_page(r, e, upto, more) ==
  LET c == [r EXCEPT !.calls = @ + 1, !.err = e] IN
  IF e # NoError THEN make_response(c, ErrorBody(e), 500)
  ELSE LET employees == c.employees \o ScanItems(table, c.lek, upto) IN
       IF more
         THEN [c EXCEPT !.pc = "scan", !.employees = employees, !.lek = upto]
         ELSE make_response([c EXCEPT !.employees = employees, !.lek = 0],
                            [kind |-> "list", items |-> employees], 200)

\* get_employees up to the first page.
GetEmployees(p, in) ==
  \E method \in Methods, path \in in.paths, e \in in.errors \cup {NoError},
     upto \in 0..MaxKey, more \in BOOLEAN :
    /\ inv[p].pc = "idle"
    /\ Route(method, path) = "get_employees"
    /\ ScanChoice(table, 0, upto, more)
    /\ inv' = [inv EXCEPT ![p] = scan_page(Request(method, path), e, upto, more)]
    /\ UNCHANGED <<table, img>>

\* One turn of the while "LastEvaluatedKey" in response loop.
ScanNext(p, in) ==
  \E e \in in.errors \cup {NoError}, upto \in 0..MaxKey, more \in BOOLEAN :
    /\ inv[p].pc = "scan"
    /\ ScanChoice(table, inv[p].lek, upto, more)
    /\ inv' = [inv EXCEPT ![p] = scan_page(inv[p], e, upto, more)]
    /\ UNCHANGED <<table, img>>

\* The item create_employee writes: {"id": employee_id, **employee_data}.
NewItem(employee_id, employee_data) == employee_data @@ [id |-> employee_id]

\* create_employee; uuid4 gives an id no item has.
CreateEmployee(p, in) ==
  \E method \in Methods, path \in in.paths, employee_data \in in.create,
     employee_id \in Keys \ DOMAIN table, e \in in.errors \cup {NoError} :
    /\ inv[p].pc = "idle"
    /\ Route(method, path) = "create_employee"
    /\ LET c == [Request(method, path) EXCEPT !.calls = 1, !.err = e,
                                              !.data = employee_data] IN
       IF e # NoError
         THEN /\ inv' = [inv EXCEPT ![p] = make_response(c, ErrorBody(e), 500)]
              /\ table' = table
         ELSE /\ table' = put_item(table, NewItem(employee_id, employee_data))
              /\ inv' = [inv EXCEPT ![p] =
                           make_response(c, [kind |-> "id", id |-> employee_id], 201)]
    /\ img' = img

\* Mutant: the handler goes on to the write without looking at the item.
exists_or_respond_Unchecked(r, employee_id, e, next) ==
  LET c == [r EXCEPT !.calls = @ + 1, !.err = e] IN
  IF e # NoError THEN make_response(c, ErrorBody(e), 500)
  ELSE [c EXCEPT !.pc = next]

\* Mutant: a ClientError of the existence read is swallowed.
exists_or_respond_FaultSwallowed(r, employee_id, e, next) ==
  LET c == [r EXCEPT !.calls = @ + 1, !.err = e] IN
  IF e = NoError /\ employee_id \notin DOMAIN table
    THEN make_response(c, NotFoundBody(employee_id), 404)
  ELSE [c EXCEPT !.pc = next]

\* What follows get_or_throw in update_employee and delete_employee.
exists_or_respond(r, employee_id, e, next) ==
  LET c == [r EXCEPT !.calls = @ + 1, !.err = e] IN
  IF e # NoError THEN make_response(c, ErrorBody(e), 500)
  ELSE IF employee_id \notin DOMAIN table
    THEN make_response(c, NotFoundBody(employee_id), 404)
  ELSE [c EXCEPT !.pc = next]

\* update_employee up to and including get_or_throw.
UpdateCheck(p, in) ==
  \E method \in Methods, path \in in.paths, update_data \in in.update,
     e \in in.errors \cup {NoError} :
    /\ inv[p].pc = "idle"
    /\ Route(method, path) = "update_employee"
    /\ inv' = [inv EXCEPT ![p] =
                 exists_or_respond(
                   [Request(method, path) EXCEPT !.data = update_data],
                   PathId(path), e, "update_item")]
    /\ UNCHANGED <<table, img>>

\* update_employee from table.update_item on; the key attribute cannot be SET.
UpdateWrite(p, in) ==
  \E e \in in.errors \cup {NoError} :
    /\ inv[p].pc = "update_item"
    /\ LET r == inv[p]
           err == IF e = NoError /\ r.data.attribute = "id"
                    THEN ValidationError ELSE e
           c == [r EXCEPT !.calls = @ + 1, !.err = err] IN
       IF err # NoError
         THEN /\ inv' = [inv EXCEPT ![p] = make_response(c, ErrorBody(err), 500)]
              /\ table' = table
         ELSE /\ table' = update_item(table, PathId(r.path), r.data.attribute,
                                      r.data.value)
              /\ inv' = [inv EXCEPT ![p] =
                           make_response(c, [kind |-> "attrs",
                                             attribute |-> r.data.attribute,
                                             value |-> r.data.value], 200)]
    /\ img' = img

\* delete_employee up to and including get_or_throw.
DeleteCheck(p, in) ==
  \E method \in Methods, path \in in.paths, e \in in.errors \cup {NoError} :
    /\ inv[p].pc = "idle"
    /\ Route(method, path) = "delete_employee"
    /\ inv' = [inv EXCEPT ![p] =
                 exists_or_respond(Request(method, path), PathId(path), e,
                                   "delete_item")]
    /\ UNCHANGED <<table, img>>

\* delete_employee from table.delete_item on.
DeleteWrite(p, in) ==
  \E e \in in.errors \cup {NoError} :
    /\ inv[p].pc = "delete_item"
    /\ LET c == [inv[p] EXCEPT !.calls = @ + 1, !.err = e] IN
       IF e # NoError
         THEN /\ inv' = [inv EXCEPT ![p] = make_response(c, ErrorBody(e), 500)]
              /\ table' = table
         ELSE /\ table' = delete_item(table, PathId(c.path))
              /\ inv' = [inv EXCEPT ![p] = make_response(c, NoBody, 204)]
    /\ img' = img

\* The response has been handed back; the next event may arrive.
Return(p) ==
  /\ inv[p].pc = "done"
  /\ inv' = [inv EXCEPT ![p] = Idle]
  /\ UNCHANGED <<table, img>>

\* ------------------------------------------------------- specifications
NoImage == [pc |-> "none"]

Init ==
  /\ table \in Tables
  /\ inv = [p \in Procs |-> Idle]
  /\ img = NoImage

\* The API handler, one invocation after the other, on any events (bodies
\* are JSON objects of the shape the route takes) and with any table call
\* free to raise a ClientError.
Next ==
  \/ Info(1, ApiInputs)
  \/ NotImplemented(1, ApiInputs)
  \/ GetEmployee(1, ApiInputs)
  \/ GetEmployees(1, ApiInputs)
  \/ ScanNext(1, ApiInputs)
  \/ CreateEmployee(1, ApiInputs)
  \/ UpdateCheck(1, ApiInputs)
  \/ UpdateWrite(1, ApiInputs)
  \/ DeleteCheck(1, ApiInputs)
  \/ DeleteWrite(1, ApiInputs)
  \/ Return(1)

Spec == Init /\ [][Next]_vars

\* Concurrent invocations of update_employee and delete_employee.
InitRace ==
  /\ table \in UNION {[S -> Items] : S \in SUBSET RaceKeySet}
  /\ TableOK(table)
  /\ inv = [p \in Procs |-> Idle]
  /\ img = NoImage

NextRace ==
  \E p \in Procs :
    \/ UpdateCheck(p, RaceInputs)
    \/ UpdateWrite(p, RaceInputs)
    \/ DeleteCheck(p, RaceInputs)
    \/ DeleteWrite(p, RaceInputs)
    \/ Return(p)

SpecRace == InitRace /\ [][NextRace]_vars

\* ------------------------------------------------- thumbnail generator
BoxWidth == 120
BoxHeight == 160

\* An object key, as lambda_handler hands it over (unquote_plus leaves keys
\* over these characters as they are), is a sequence of characters.
Chars == {"/", ".", "j", "p", "g"}
ObjectKeys == UNION {[1..n -> Chars] : n \in 1..MaxKeyLen}
ExampleKey == <<"p", "/", "j", ".", "j", "p", "g">>
Thumbnails == <<"t", "h", "u", "m", "b", "n", "a", "i", "l", "s", "/">>

\* EXIF orientation tags; 0 stands for no tag or unreadable EXIF data.
Orientations == {0, 1, 3, 6, 8}

\* image.size after the EXIF correction: rotate(270) and rotate(90) with
\* expand=True swap width and height, rotate(180) keeps them.
Rotated(w, h, orientation) ==
  IF orientation \in {6, 8} THEN <<h, w>> ELSE <<w, h>>

\* Python's tuple comparison image.size < size.
TupleLess(a, b) == a[1] < b[1] \/ (a[1] = b[1] /\ a[2] < b[2])

\* (new_width, new_height) of resize_image; int(x / float(y)) truncates.
NewSize(size, box) ==
  IF TupleLess(size, box) THEN size
  ELSE IF box[1] * size[2] > size[1] * box[2]      \* dest_ratio > source_ratio
    THEN <<(size[1] * box[2]) \div size[2], box[2]>>
  ELSE <<box[1], (size[2] * box[1]) \div size[1]>>

\* Floor division, as Python's // (the operand may be negative).
FloorDiv2(n) == IF n >= 0 THEN n \div 2 ELSE -((1 - n) \div 2)

TopLeft(new, box) == <<FloorDiv2(box[1] - new[1]), FloorDiv2(box[2] - new[2])>>

\* key.split("/")[-1]
RECURSIVE LastSegment(_)
LastSegment(key) ==
  IF \E i \in DOMAIN key : key[i] = "/"
    THEN LastSegment(Tail(key))
    ELSE key

\* str.replace(".jpg", ".png"): every occurrence, left to right.
RECURSIVE Replace(_)
Replace(s) ==
  IF s = <<>> THEN <<>>
  ELSE IF Len(s) >= 4 /\ SubSeq(s, 1, 4) = <<".", "j", "p", "g">>
    THEN <<".", "p", "n", "g">> \o Replace(SubSeq(s, 5, Len(s)))
  ELSE <<Head(s)>> \o Replace(Tail(s))

DestKey(key) == Replace(Thumbnails \o LastSegment(key))

\* resize_image on an object that opens as an image: one object is written.
ResizeImage ==
  \E orientation \in Orientations :
    /\ img.pc = "event"
    /\ LET size == Rotated(img.w, img.h, orientation)
           new == NewSize(size, <<BoxWidth, BoxHeight>>) IN
       img' = [pc |-> "stored", key |-> img.key, w |-> img.w, h |-> img.h,
               size |-> size, new_width |-> new[1], new_height |-> new[2],
               topleft |-> TopLeft(new, <<BoxWidth, BoxHeight>>),
               dest_key |-> DestKey(img.key)]
    /\ UNCHANGED <<table, inv>>

\* resize_image on an object that does not open: nothing is written.
OpenFails ==
  /\ img.pc = "event"
  /\ img' = [img EXCEPT !.pc = "failed"]
  /\ UNCHANGED <<table, inv>>

NextImage == ResizeImage \/ OpenFails

\* Every image size, one key.
InitResize ==
  /\ table = <<>>
  /\ inv = [p \in Procs |-> Idle]
  /\ \E w \in 1..MaxDim, h \in 1..MaxDim :
       img = [pc |-> "event", key |-> ExampleKey, w |-> w, h |-> h]

SpecResize == InitResize /\ [][NextImage]_vars

\* Every object key, one image size.
InitKey ==
  /\ table = <<>>
  /\ inv = [p \in Procs |-> Idle]
  /\ \E key \in ObjectKeys :
       img = [pc |-> "event", key |-> key, w |-> BoxWidth, h |-> BoxWidth]

SpecKey == InitKey /\ [][NextImage]_vars

\* ================================================================ claims
\* The route an invocation that has started was dispatched from.
RouteOf(r) == Route(r.method, r.path)
Starts(p, route) ==
  inv[p].pc = "idle" /\ inv'[p].pc # "idle" /\ RouteOf(inv'[p]) = route
Faulted(r) == r.err # NoError /\ r.status = 500 /\ r.body = ErrorBody(r.err)

\* C1: after Create has answered 201 with an id (nothing else having run
\* since), Get on that id answers 200 with the submitted attributes plus the
\* generated id, whatever attributes were submitted ("id" included).
C1_CreateGetRoundTrip ==
  \A p \in Procs :
    (inv[p].pc = "done" /\ RouteOf(inv[p]) = "create_employee"
       /\ inv[p].status = 201)
    => LET id == inv[p].body.id
           got == get_employee(Request("GET", <<"", "employees", id>>), id,
                               NoError) IN
       /\ got.status = 200
       /\ got.body = [kind |-> "item", item |-> [id |-> id] @@ inv[p].data]

\* C10: a Create that answers 201 adds exactly one item, under the id it
\* returns, and leaves every item that was in the table as it was.
C10_CreateAddsOneRecord ==
  [][\A p \in Procs :
       (Starts(p, "create_employee") /\ inv'[p].status = 201)
       => /\ inv'[p].body.id \notin DOMAIN table
          /\ DOMAIN table' = DOMAIN table \cup {inv'[p].body.id}
          /\ \A k \in DOMAIN table : table'[k] = table[k]]_vars

\* C2: Update on an id that has no item answers 404 (500 if the existence
\* read itself raised a ClientError), the invocation ends after that one
\* read, so update_item is not issued, and the table is left as it was.
C2_UpdateMissingIs404 ==
  [][\A p \in Procs :
       (Starts(p, "update_employee") /\ PathId(inv'[p].path) \notin DOMAIN table)
       => /\ inv'[p].pc = "done"
          /\ inv'[p].calls = 1
          /\ \/ inv'[p].status = 404 /\ inv'[p].err = NoError
                  /\ inv'[p].body = NotFoundBody(PathId(inv'[p].path))
             \/ Faulted(inv'[p])
          /\ table' = table]_vars

C2_Witness ==
  \E p \in Procs :
    /\ inv[p].pc = "done" /\ RouteOf(inv[p]) = "update_employee"
    /\ inv[p].status = 404 /\ inv[p].calls = 1
    /\ table # <<>>

\* C3: Delete on an id that has an item answers 204 (500 if a table call
\* raised a ClientError) and removes that item and no other; the id then has
\* no item until a Create or an Update writes one, and Get on an id without
\* an item answers 404.
C3_DeleteThenGetIs404 ==
  [][\A p \in Procs :
       /\ (Starts(p, "delete_employee") /\ PathId(inv'[p].path) \in DOMAIN table)
          => \/ inv'[p].pc = "delete_item" /\ inv'[p].err = NoError
             \/ inv'[p].pc = "done" /\ Faulted(inv'[p])
       /\ (inv[p].pc = "delete_item" /\ inv'[p].pc # "delete_item")
          => /\ inv'[p].pc = "done"
             /\ \/ /\ inv'[p].status = 204
                   /\ DOMAIN table' = DOMAIN table \ {PathId(inv[p].path)}
                   /\ \A k \in DOMAIN table' : table'[k] = table[k]
                \/ Faulted(inv'[p]) /\ table' = table
       /\ (\E k \in DOMAIN table' : k \notin DOMAIN table)
          => \E q \in Procs :
               /\ inv'[q] # inv[q]
               /\ RouteOf(inv'[q]) \in {"create_employee", "update_employee"}
       /\ (Starts(p, "get_employee") /\ PathId(inv'[p].path) \notin DOMAIN table')
          => /\ inv'[p].pc = "done"
             /\ \/ inv'[p].status = 404 /\ inv'[p].err = NoError
                \/ Faulted(inv'[p])]_vars

C3_Witness ==
  \E p \in Procs :
    /\ inv[p].pc = "done" /\ RouteOf(inv[p]) = "delete_employee"
    /\ inv[p].status = 204 /\ inv[p].calls = 2
    /\ PathId(inv[p].path) \notin DOMAIN table
    /\ table # <<>>
    /\ get_employee(Request("GET", inv[p].path), PathId(inv[p].path),
                    NoError).status = 404

\* C4: with no writer running beside it, List answers 200 with a sequence
\* that holds every item of the table exactly once and nothing else (500 if
\* a page raised a ClientError), however the scan is cut into pages.
C4_ListReturnsAll ==
  \A p \in Procs :
    (inv[p].pc = "done" /\ RouteOf(inv[p]) = "get_employees")
    => \/ Faulted(inv[p])
       \/ /\ inv[p].status = 200 /\ inv[p].err = NoError
          /\ inv[p].body.kind = "list"
          /\ Len(inv[p].body.items) = Cardinality(DOMAIN table)
          /\ Range(inv[p].body.items) = {table[k] : k \in DOMAIN table}

\* Three pages, one of them without items, two items in the answer.
C4_Witness ==
  \E p \in Procs :
    /\ inv[p].pc = "done" /\ RouteOf(inv[p]) = "get_employees"
    /\ inv[p].status = 200 /\ inv[p].calls >= 3
    /\ Len(inv[p].body.items) >= 2

\* The route table as the API states it, {id} standing for what follows
\* "/employees/".
InRouteTable(method, path) ==
  \/ \E i \in DOMAIN path : path[i] = "info"
  \/ method \in {"GET", "POST"} /\ path = <<"", "employees">>
  \/ /\ method \in {"GET", "PATCH", "DELETE"}
     /\ Len(path) > 2 /\ SubSeq(path, 1, 2) = <<"", "employees">>

C7_ServiceErrorIs500 ==
  [][\A p \in Procs :
       /\ (inv'[p] # inv[p] /\ inv'[p].err # NoError)
          => /\ inv'[p].pc = "done"
             /\ inv'[p].status = 500
             /\ inv'[p].body = [kind |-> "error",
                                error |-> ErrorMessage(inv'[p].err)]
             /\ inv'[p].calls = inv[p].calls + 1
             /\ table' = table
       /\ inv[p].err # NoError => inv'[p] \in {inv[p], Idle}]_vars

\* A later scan page fails: the items collected so far are not returned.
C7_Witness ==
  \E p \in Procs :
    /\ inv[p].pc = "done" /\ RouteOf(inv[p]) = "get_employees"
    /\ inv[p].status = 500 /\ inv[p].calls >= 2
    /\ inv[p].employees # <<>>
    /\ inv[p].body.kind = "error"

\* C9: the existence read and the write of Update are two steps: when a
\* Delete removes the item between them, Update's write still runs, puts an
\* item under the absent id and Update answers 200, not 404.
C9_UpdateAfterDeleteIs200 ==
  [][\A p \in Procs :
       (inv[p].pc = "update_item" /\ inv'[p].pc # "update_item"
          /\ PathId(inv[p].path) \notin DOMAIN table)
       => LET id == PathId(inv[p].path) IN
          /\ inv'[p].pc = "done"
          /\ inv'[p].status = 200
          /\ DOMAIN table' = DOMAIN table \cup {id}
          /\ table'[id] = (inv[p].data.attribute :> inv[p].data.value)
                            @@ [id |-> id]]_vars

\* Update has passed its existence read, a Delete of the same id has then
\* answered 204, and the id has no item when Update is about to write.
C9_Witness ==
  \E p, q \in Procs :
    /\ p # q
    /\ inv[p].pc = "update_item" /\ inv[p].calls = 1 /\ inv[p].err = NoError
    /\ inv[q].pc = "done" /\ RouteOf(inv[q]) = "delete_employee"
    /\ inv[q].status = 204
    /\ PathId(inv[q].path) = PathId(inv[p].path)
    /\ PathId(inv[p].path) \notin DOMAIN table

\* C6: the content size computed for the 120x160 box fits the box, so both
\* centering offsets are >= 0, and a source smaller than the box in both
\* dimensions keeps its size.
C6_ContentFitsBox ==
  (img.pc = "stored" /\ img.size = <<img.w, img.h>>)
  => /\ img.new_width <= BoxWidth /\ img.new_height <= BoxHeight
     /\ img.topleft[1] >= 0 /\ img.topleft[2] >= 0
     /\ (img.w < BoxWidth /\ img.h < BoxHeight)
        => <<img.new_width, img.new_height>> = <<img.w, img.h>>

\* The file name without its extension (what precedes its last ".").
Stem(name) ==
  LET dots == {i \in DOMAIN name : name[i] = "."} IN
  IF dots = {} THEN name
  ELSE SubSeq(name, 1, (CHOOSE i \in dots : \A j \in dots : j <= i) - 1)

HasExtension(name) ==
  \E i \in DOMAIN name :
    /\ name[i] = "." /\ 1 < i /\ i < Len(name)
    /\ \A j \in DOMAIN name : j < i => name[j] # "."

\* C8: the thumbnail of a source key whose file name has an extension is
\* stored under "thumbnails/" + the name's stem + ".png".
C8_ThumbnailKeyIsPng ==
  (img.pc = "stored" /\ HasExtension(LastSegment(img.key)))
  => img.dest_key
       = Thumbnails \o Stem(LastSegment(img.key)) \o <<".", "p", "n", "g">>

====
